---- MODULE Spec2Model ----
(***************************************************************************)
(* Off-chain Merkle-tree dividend distribution of the Rain protocol:       *)
(*   rain/merkletree.py  OZMerkleTree (construction, root, get_proof)      *)
(*   rain/dividends.py   calculate_dividend_shares, get_merkle_proof       *)
(*   tests               verify_merkle_proof, MockInternalMerkleTree       *)
(*                                                                         *)
(* A bytes32 value is a natural number; Python's `<` on 32-byte strings is *)
(* the order of the big-endian numbers.  Lists are sequences; the code's   *)
(* 0-based indices are kept and element i of a list s is s[i + 1].         *)
(***************************************************************************)
EXTENDS Integers, Sequences, FiniteSets, TLC

VARIABLES
    leaves_arg,   \* the list the caller passes to OZMerkleTree(...)
    tree,         \* the OZMerkleTree object: built, leaves, levels
    ret,          \* outcome of the last call on the tree
    reputationScores,       \* the reputation oracle: account -> score
    user_addresses,         \* candidate list of one dividend cycle
    total_dividend_amount,  \* payout pool of the cycle
    shares_ret,   \* outcome of calculate_dividend_shares
    proof_ret,    \* outcome of the last get_merkle_proof
    verify_ret,   \* outcome of the last proof verification
    MerkleTree,   \* what the name rain.dividends.MerkleTree is bound to
    reputation_calls,  \* the accounts reputationScores() was called with, in order
    keccak_count, \* number of web3.solidityKeccak calls made by rain.dividends
    cycle_leaves, \* per cycle: the leaf list handed to the cycle's OZMerkleTree
    instances,    \* per cycle: the OZMerkleTree object while and after __init__ runs
    cycle_proofs, \* per cycle: outcome of get_proof on the cycle's tree
    protocolFee,       \* CalculusEngine.protocolFee()
    totalReputation,   \* RainReputation.totalReputation()
    numberOfCycles,    \* TreasuryV2.getNumberOfCycles()
    cycleDetails,      \* TreasuryV2: cycle id -> totalAmount, or the call raises
    rep_gain_on_fulfillment,  \* argument of calculate_new_protocol_fee
    contract_calls,    \* the contract calls of the keeper run, in order
    fee_ret            \* outcome of calculate_new_protocol_fee

treeVars == <<leaves_arg, tree, ret>>

cycleVars == <<reputationScores, user_addresses, total_dividend_amount, MerkleTree>>

callVars == <<reputation_calls, keccak_count>>

divVars == <<reputationScores, user_addresses, total_dividend_amount,
             shares_ret, proof_ret, verify_ret,
             MerkleTree, reputation_calls, keccak_count>>

buildVars == <<cycle_leaves, instances, cycle_proofs>>

feeInputs == <<totalReputation, numberOfCycles, cycleDetails, rep_gain_on_fulfillment>>

feeVars == <<protocolFee, totalReputation, numberOfCycles, cycleDetails,
             rep_gain_on_fulfillment, contract_calls, fee_ret>>

vars == <<leaves_arg, tree, ret, reputationScores, user_addresses,
          total_dividend_amount, shares_ret, proof_ret, verify_ret,
          MerkleTree, reputation_calls, keccak_count,
          cycle_leaves, instances, cycle_proofs,
          protocolFee, totalReputation, numberOfCycles, cycleDetails,
          rep_gain_on_fulfillment, contract_calls, fee_ret>>

----------------------------------------------------------------------------
(* Bounds of the model *)

\* longest leaf list handed to the tree (lists this long have distinct entries)
MaxLeaves == 5

\* longest leaf list in which values may repeat
MaxDupLeaves == 4

\* number of distinct pre-hashed leaf values a caller can pass
NumLeafVals == 5

\* block size of the digest permutation Mix (selects one collision-free hash)
HashBlock == 8

\* accounts known to the reputation oracle
NumAccounts == 2

\* largest reputation score the oracle returns
MaxRep == 2

\* longest candidate list
MaxUsers == 3

\* largest payout pool (a claimant states amounts up to one more)
MaxPayout == 3

\* longest leaf list of a cycle whose construction is followed step by step
\* (lists this long are given in ascending order)
MaxBuildLeaves == 3

\* number of distinct leaf values in those lists
NumBuildVals == 2

\* largest on-chain protocol fee before the keeper runs
MaxFee == 2

\* total reputation is 0 or a power of two up to 2^MaxRepLog
MaxRepLog == 2

\* largest number of dividend cycles the treasury reports
MaxCycles == 2

\* largest totalAmount of a dividend cycle
MaxCycleAmount == 2

\* largest rep_gain_on_fulfillment passed by the keeper
MaxRepGain == 2

----------------------------------------------------------------------------
(* Values *)

\* b'\x00' * 32
ZeroRoot == 0

\* the pre-hashed leaves a caller can pass (bytes32(0) is one of them)
LeafVals == 0 .. (NumLeafVals - 1)

Accounts == 1 .. NumAccounts

Amounts == 0 .. MaxPayout

Max(a, b) == IF a > b THEN a ELSE b

\* size of the value range that holds leaves; node digests lie above it
LeafSpace == Max(NumLeafVals, 1 + NumAccounts * (MaxPayout + 2))

Last(s) == s[Len(s)]

Elems(s) == { s[i] : i \in 1 .. Len(s) }

\* all lists over S of length at most n
SeqsUpTo(S, n) == UNION { [1 .. k -> S] : k \in 0 .. n }

----------------------------------------------------------------------------
(* The hash primitive: an injective function of the ordered pair whose     *)
(* digests are never leaves (collision-free keccak-256 over 64 bytes).     *)

Cantor(a, b) == ((a + b) * (a + b + 1)) \div 2 + b

\* a bijection on the naturals that reverses the order inside each block,
\* so that digests are not monotone in their inputs
Mix(v) == (v \div HashBlock) * HashBlock + (HashBlock - 1 - (v % HashBlock))

\* variant: the two values are packed as one bit each, so digests collide
keccak256_low_bits(a, b) == LeafSpace + Mix(Cantor(a % 2, b % 2))

\* _solidity_keccak256(['bytes32', 'bytes32'], [a, b])
_solidity_keccak256(a, b) == LeafSpace + Mix(Cantor(a, b))

----------------------------------------------------------------------------
(* OZMerkleTree *)

\* variant: a value that is already in the list is not inserted again
RECURSIVE Insert_if_new(_, _)
Insert_if_new(x, s) ==
    IF s = <<>> THEN <<x>>
    ELSE IF x = Head(s) THEN s
    ELSE IF x < Head(s) THEN <<x>> \o s
    ELSE <<Head(s)>> \o Insert_if_new(x, Tail(s))

RECURSIVE Insert(_, _)
Insert(x, s) ==
    IF s = <<>> THEN <<x>>
    ELSE IF x < Head(s) THEN <<x>> \o s
    ELSE <<Head(s)>> \o Insert(x, Tail(s))

\* variant: the leaves are kept in the caller's order
sorted_as_given(s) == s

\* sorted(leaves): ascending, every entry kept
RECURSIVE sorted(_)
sorted(s) == IF s = <<>> THEN <<>> ELSE Insert(Head(s), sorted(Tail(s)))

\* variant: an odd level is padded with bytes32(0), not with a copy
nodes_for_hashing_zero_padded(level) ==
    IF Len(level) % 2 = 1 THEN Append(level, ZeroRoot) ELSE level

\* nodes = list(level); if len(nodes) % 2 == 1: nodes.append(nodes[-1])
nodes_for_hashing(level) ==
    IF Len(level) % 2 = 1 THEN Append(level, Last(level)) ELSE level

\* variant: a pair is hashed in level order, not in value order
combined_in_level_order(node1, node2) == _solidity_keccak256(node1, node2)

\* the sorted-pair rule of _add_level
combined(node1, node2) ==
    IF node1 < node2 THEN _solidity_keccak256(node1, node2)
    ELSE _solidity_keccak256(node2, node1)

\* variant: the odd last node is left out, only full pairs are hashed
next_level_full_pairs(last_level) ==
    [k \in 1 .. (Len(last_level) \div 2) |->
        combined(last_level[2 * k - 1], last_level[2 * k])]

\* next_level of _add_level for the last level
next_level(last_level) ==
    LET nodes == nodes_for_hashing(last_level)
    IN  [k \in 1 .. (Len(nodes) \div 2) |-> combined(nodes[2 * k - 1], nodes[2 * k])]

\* variant: the odd last node moves up unhashed
_add_level_promote_odd(levels) ==
    LET last_level == Last(levels)
        pairs == [k \in 1 .. (Len(last_level) \div 2) |->
                     combined(last_level[2 * k - 1], last_level[2 * k])]
    IN  Append(levels, IF Len(last_level) % 2 = 1
                       THEN Append(pairs, Last(last_level)) ELSE pairs)

\* self.levels.append(next_level)
_add_level(levels) == Append(levels, next_level(Last(levels)))

\* variant: a lone leaf is paired with its own copy and hashed once
RECURSIVE build_levels_hash_single(_)
build_levels_hash_single(levels) ==
    IF Len(Last(levels)) > 1 \/ (Len(levels) = 1 /\ Len(Last(levels)) = 1)
    THEN build_levels_hash_single(_add_level(levels))
    ELSE levels

\* while len(self.levels[-1]) > 1: self._add_level()
RECURSIVE build_levels(_)
build_levels(levels) ==
    IF Len(Last(levels)) > 1 THEN build_levels(_add_level(levels)) ELSE levels

\* variant: level 0 holds every value once, self.leaves keeps the repeats
OZMerkleTree_distinct_level0(leaves) ==
    LET s == sorted(leaves)
        d == SelectSeq([i \in 1 .. Len(s) |-> [v |-> s[i], first |-> i = 1 \/ s[i - 1] # s[i]]],
                       LAMBDA e : e.first)
    IN  [built |-> TRUE, leaves |-> s,
         levels |-> build_levels(<< [i \in 1 .. Len(d) |-> d[i].v] >>)]

\* OZMerkleTree.__init__
OZMerkleTree(leaves) ==
    LET s == sorted(leaves)
    IN  [built |-> TRUE, leaves |-> s, levels |-> build_levels(<<s>>)]

\* variant: the root of the empty tree is the digest of two zero words
root_digest_when_empty(t) ==
    IF Len(t.levels) > 0 /\ Len(Last(t.levels)) > 0
    THEN Last(t.levels)[1] ELSE _solidity_keccak256(ZeroRoot, ZeroRoot)

\* the root property
root(t) ==
    IF Len(t.levels) > 0 /\ Len(Last(t.levels)) > 0
    THEN Last(t.levels)[1] ELSE ZeroRoot

\* variant: bisect_left on the sorted list, without the equality test
index_of_bisect(s, x) == Cardinality({i \in 1 .. Len(s) : s[i] < x})

\* list.index: 0-based position of the first occurrence, -1 when absent
index_of(s, x) ==
    IF x \in Elems(s)
    THEN (CHOOSE i \in 1 .. Len(s) : s[i] = x /\ \A j \in 1 .. (i - 1) : s[j] # x) - 1
    ELSE -1

\* variant: no entry is emitted where the sibling is the node's own copy
RECURSIVE proof_loop_skip_copy(_, _, _, _)
proof_loop_skip_copy(levels, i, index, proof) ==
    IF i >= Len(levels) - 1 THEN [exc |-> "", proof |-> proof]
    ELSE LET nodes == nodes_for_hashing(levels[i + 1])
             sibling_index == IF index % 2 = 0 THEN index + 1 ELSE index - 1
         IN  IF sibling_index >= Len(nodes)
             THEN [exc |-> "IndexError", proof |-> <<>>]
             ELSE proof_loop_skip_copy(levels, i + 1, index \div 2,
                      IF sibling_index >= Len(levels[i + 1]) THEN proof
                      ELSE Append(proof, nodes[sibling_index + 1]))

\* the loop of get_proof from level i on, with the running index and proof
RECURSIVE proof_loop(_, _, _, _)
proof_loop(levels, i, index, proof) ==
    IF i >= Len(levels) - 1 THEN [exc |-> "", proof |-> proof]
    ELSE LET nodes == nodes_for_hashing(levels[i + 1])
             sibling_index == IF index % 2 = 0 THEN index + 1 ELSE index - 1
         IN  IF sibling_index >= Len(nodes)
             THEN [exc |-> "IndexError", proof |-> <<>>]
             ELSE proof_loop(levels, i + 1, index \div 2,
                             Append(proof, nodes[sibling_index + 1]))

\* variant: the path starts at the last position holding the value
get_proof_last_position(t, leaf) ==
    LET hits == {i \in 1 .. Len(t.leaves) : t.leaves[i] = leaf}
    IN  IF hits = {} THEN [exc |-> "ValueError", proof |-> <<>>]
        ELSE proof_loop(t.levels, 0,
                        (CHOOSE i \in hits : \A j \in hits : j <= i) - 1, <<>>)

\* OZMerkleTree.get_proof
get_proof(t, leaf) ==
    LET index == index_of(t.leaves, leaf)
    IN  IF index < 0 THEN [exc |-> "ValueError", proof |-> <<>>]
        ELSE proof_loop(t.levels, 0, index, <<>>)

\* variant: the first step hashes the sibling with itself, the leaf is unused
RECURSIVE replay_from_sibling(_, _)
replay_from_sibling(current_hash, proof) ==
    IF proof = <<>> THEN current_hash
    ELSE LET sibling == Head(proof)
             rest == Tail(proof)
             first == _solidity_keccak256(sibling, sibling)
         IN  IF rest = <<>> THEN first
             ELSE replay_from_sibling(
                      IF first < Head(rest)
                      THEN _solidity_keccak256(first, Head(rest))
                      ELSE _solidity_keccak256(Head(rest), first),
                      Tail(rest))

\* verify_merkle_proof: the replay of the proof from the leaf
RECURSIVE replay(_, _)
replay(current_hash, proof) ==
    IF proof = <<>> THEN current_hash
    ELSE LET sibling == Head(proof)
         IN  replay(IF current_hash < sibling
                    THEN _solidity_keccak256(current_hash, sibling)
                    ELSE _solidity_keccak256(sibling, current_hash),
                    Tail(proof))

verify_merkle_proof(r, leaf, proof) == replay(leaf, proof) = r

----------------------------------------------------------------------------
(* The tree as a state machine *)

NoTree == [built |-> FALSE, leaves |-> <<>>, levels |-> <<>>]

NoRet == [op |-> "none", leaf |-> -1, exc |-> "", proof |-> <<>>, value |-> -1]

\* the leaf lists a caller passes: any list up to MaxDupLeaves entries, and
\* any list of distinct values up to MaxLeaves entries
LeafLists ==
    SeqsUpTo(LeafVals, MaxDupLeaves)
        \cup { s \in SeqsUpTo(LeafVals, MaxLeaves) : Cardinality(Elems(s)) = Len(s) }

NoShares == [op |-> "none", exc |-> "", shares |-> <<>>, hashed_leaves |-> <<>>,
             root |-> [prefix |-> "", digits |-> -1], total |-> -1]

NoProof == [op |-> "none", account |-> 0, amount |-> -1, exc |-> "", proof |-> <<>>]

NoVerify == [op |-> "none", amount |-> -1, ok |-> FALSE]

\* the two dividend cycles whose trees are built side by side
Cycles == {1, 2}

NoInstance == [pc |-> "new", leaves |-> <<>>, levels |-> <<>>]

NoCycleProof == [op |-> "none", leaf |-> -1, exc |-> "", proof |-> <<>>,
                 levels_read |-> <<>>]

BuildIdle ==
    /\ cycle_leaves = [c \in Cycles |-> <<>>]
    /\ instances = [c \in Cycles |-> NoInstance]
    /\ cycle_proofs = [c \in Cycles |-> NoCycleProof]

NoFee == [op |-> "none", none |-> FALSE, value |-> 0, exc |-> ""]

FeeIdle ==
    /\ protocolFee = 0
    /\ totalReputation = 0
    /\ numberOfCycles = 0
    /\ cycleDetails = <<>>
    /\ rep_gain_on_fulfillment = 1
    /\ contract_calls = <<>>
    /\ fee_ret = NoFee

TreeIdle ==
    /\ leaves_arg = <<>>
    /\ tree = NoTree
    /\ ret = NoRet

DivIdle ==
    /\ reputationScores = [a \in Accounts |-> 0]
    /\ user_addresses = <<>>
    /\ total_dividend_amount = 0
    /\ shares_ret = NoShares
    /\ proof_ret = NoProof
    /\ verify_ret = NoVerify
    /\ MerkleTree = "MockInternalMerkleTree"
    /\ reputation_calls = <<>>
    /\ keccak_count = 0

Init ==
    /\ leaves_arg \in LeafLists
    /\ tree = NoTree
    /\ ret = NoRet
    /\ DivIdle
    /\ BuildIdle
    /\ FeeIdle

\* tree = OZMerkleTree(leaves_arg)
Construct ==
    /\ ~tree.built
    /\ tree' = OZMerkleTree(leaves_arg)
    /\ ret' = [NoRet EXCEPT !.op = "__init__"]
    /\ UNCHANGED leaves_arg
    /\ UNCHANGED divVars
    /\ UNCHANGED <<buildVars, feeVars>>

\* the caller reorders its list (neighbours i and j trade places; such steps
\* reach every permutation) and builds the tree again from the reordered list
Swap(s, i, j) == [s EXCEPT ![i] = s[j], ![j] = s[i]]

Rebuild(i, j) ==
    /\ tree.built
    /\ i \in 1 .. Len(leaves_arg) /\ j = i + 1 /\ j <= Len(leaves_arg)
    /\ leaves_arg[i] # leaves_arg[j]
    /\ leaves_arg' = Swap(leaves_arg, i, j)
    /\ tree' = OZMerkleTree(leaves_arg')
    /\ ret' = [NoRet EXCEPT !.op = "rebuild"]
    /\ UNCHANGED divVars
    /\ UNCHANGED <<buildVars, feeVars>>

\* tree.root
ReadRoot ==
    /\ tree.built
    /\ ret' = [NoRet EXCEPT !.op = "root", !.value = root(tree)]
    /\ UNCHANGED <<leaves_arg, tree>>
    /\ UNCHANGED divVars
    /\ UNCHANGED <<buildVars, feeVars>>

\* the values a caller asks a proof for: any leaf value, or the root
Queries == LeafVals \cup {root(tree)}

\* variant: the stored level itself receives the copy of its odd last node
GetProof_in_place(leaf) ==
    /\ tree.built
    /\ LET r == get_proof(tree, leaf)
           padded == [k \in 1 .. Len(tree.levels) |->
                         IF k < Len(tree.levels)
                         THEN nodes_for_hashing(tree.levels[k]) ELSE tree.levels[k]]
       IN  /\ ret' = [NoRet EXCEPT !.op = "get_proof", !.leaf = leaf,
                                   !.exc = r.exc, !.proof = r.proof]
           /\ tree' = IF r.exc = ""
                      THEN [tree EXCEPT !.leaves = padded[1], !.levels = padded]
                      ELSE tree
    /\ UNCHANGED leaves_arg
    /\ UNCHANGED divVars
    /\ UNCHANGED <<buildVars, feeVars>>

\* tree.get_proof(leaf)
GetProof(leaf) ==
    /\ tree.built
    /\ LET r == get_proof(tree, leaf)
       IN  ret' = [NoRet EXCEPT !.op = "get_proof", !.leaf = leaf,
                                !.exc = r.exc, !.proof = r.proof]
    /\ UNCHANGED <<leaves_arg, tree>>
    /\ UNCHANGED divVars
    /\ UNCHANGED <<buildVars, feeVars>>

Next ==
    \/ Construct
    \/ \E i \in 1 .. MaxLeaves : Rebuild(i, i + 1)
    \/ ReadRoot
    \/ \E leaf \in Queries : GetProof(leaf)

Spec == Init /\ [][Next]_vars

----------------------------------------------------------------------------
(* MockInternalMerkleTree: the class the tests bind rain.dividends.MerkleTree *)
(* to (the merkle_tree package itself is not part of the repository).        *)

\* the while loop of MockInternalMerkleTree.__init__
RECURSIVE mock_build_levels(_)
mock_build_levels(levels) ==
    IF Len(Last(levels)) > 1
    THEN LET last_level_nodes == Last(levels)
             nodes_to_hash ==
                 IF Len(last_level_nodes) % 2 = 1
                 THEN Append(last_level_nodes, Last(last_level_nodes))
                 ELSE last_level_nodes
             next_level_nodes ==
                 [k \in 1 .. (Len(nodes_to_hash) \div 2) |->
                     LET n1 == nodes_to_hash[2 * k - 1]
                         n2 == nodes_to_hash[2 * k]
                     IN  IF n1 < n2 THEN _solidity_keccak256(n1, n2)
                         ELSE _solidity_keccak256(n2, n1)]
         IN  mock_build_levels(Append(levels, next_level_nodes))
    ELSE levels

\* MockInternalMerkleTree.__init__
MockInternalMerkleTree(hashed_leaves) ==
    LET hl == sorted(hashed_leaves)
        lv == IF hl = <<>> THEN << <<>> >> ELSE mock_build_levels(<<hl>>)
    IN  [hashed_leaves |-> hl,
         levels |-> lv,
         _root |-> IF Len(lv) = 0 \/ Len(Last(lv)) = 0 THEN ZeroRoot ELSE Last(lv)[1]]

\* variant: the root of a tree without leaves is the digest of two zero words
mock_root_digest_when_empty(t) ==
    IF t.hashed_leaves = <<>> THEN _solidity_keccak256(ZeroRoot, ZeroRoot) ELSE t._root

\* MockInternalMerkleTree.root
mock_root(t) == t._root

\* variant: nothing is appended where the sibling is the node's own copy
RECURSIVE mock_proof_loop_skip_copy(_, _, _, _)
mock_proof_loop_skip_copy(levels, i, index, proof) ==
    IF i >= Len(levels) - 1 THEN proof
    ELSE LET level_nodes == levels[i + 1]
             sibling_index == IF index % 2 = 0 THEN index + 1 ELSE index - 1
             appended ==
                 IF sibling_index < Len(level_nodes)
                 THEN Append(proof, level_nodes[sibling_index + 1])
                 ELSE proof
         IN  mock_proof_loop_skip_copy(levels, i + 1, index \div 2, appended)

\* the loop of MockInternalMerkleTree.get_proof from level i on
RECURSIVE mock_proof_loop(_, _, _, _)
mock_proof_loop(levels, i, index, proof) ==
    IF i >= Len(levels) - 1 THEN proof
    ELSE LET level_nodes == levels[i + 1]
             nodes_for_hashing_at_level ==
                 IF Len(level_nodes) % 2 = 1
                 THEN Append(level_nodes, Last(level_nodes)) ELSE level_nodes
             sibling_index == IF index % 2 = 0 THEN index + 1 ELSE index - 1
             appended ==
                 IF sibling_index < Len(nodes_for_hashing_at_level)
                 THEN Append(proof, nodes_for_hashing_at_level[sibling_index + 1])
                 ELSE IF Len(nodes_for_hashing_at_level) = index + 1
                 THEN Append(proof, nodes_for_hashing_at_level[index + 1])
                 ELSE proof
         IN  mock_proof_loop(levels, i + 1, index \div 2, appended)

\* variant: a leaf that is not in the tree gets the empty proof
mock_get_proof_empty_when_absent(t, leaf_hash) ==
    LET index == index_of(t.hashed_leaves, leaf_hash)
    IN  IF index < 0 THEN [exc |-> "", proof |-> <<>>]
        ELSE [exc |-> "", proof |-> mock_proof_loop(t.levels, 0, index, <<>>)]

\* MockInternalMerkleTree.get_proof
mock_get_proof(t, leaf_hash) ==
    LET index == index_of(t.hashed_leaves, leaf_hash)
    IN  IF index < 0 THEN [exc |-> "ValueError", proof |-> <<>>]
        ELSE [exc |-> "", proof |-> mock_proof_loop(t.levels, 0, index, <<>>)]

----------------------------------------------------------------------------
(* rain/dividends.py *)

\* MerkleTree = None, the binding after a failed import of merkle_tree
None == "None"

\* the bindings of rain.dividends.MerkleTree: the class the tests patch in,
\* or None
MerkleTreeBindings == {"MockInternalMerkleTree", None}

\* variant: an account named more than once is looked up once
reputation_lookups_once_per_account(users) ==
    LET first == {i \in 1 .. Len(users) : \A j \in 1 .. (i - 1) : users[j] # users[i]}
        F[i \in 0 .. Len(users)] ==
            IF i = 0 THEN <<>>
            ELSE IF i \in first THEN Append(F[i - 1], users[i]) ELSE F[i - 1]
    IN  F[Len(users)]

\* the reputationScores(user_address) calls of the first loop of
\* calculate_dividend_shares: one per entry, in list order
reputation_lookups(users) == [i \in 1 .. Len(users) |-> users[i]]

\* variant: the leaf commits to the account only
solidityKeccak_account_only(account, amount) == 1 + (account - 1)

\* web3.solidityKeccak(['address', 'uint256'], [account, amount]): injective,
\* never bytes32(0), never a node digest
solidityKeccak(account, amount) == 1 + amount * NumAccounts + (account - 1)

\* "0x" + b.hex()
to_hex(b) == [prefix |-> "0x", digits |-> b]

\* bytes.fromhex(p[2:])
from_hex(h) == h.digits

\* variant: an account named more than once adds its reputation once
RECURSIVE sum_reputation_per_account(_)
sum_reputation_per_account(user_data) ==
    IF user_data = <<>> THEN 0
    ELSE (IF \E i \in 2 .. Len(user_data) : user_data[i].account = Head(user_data).account
          THEN 0 ELSE Head(user_data).reputation)
             + sum_reputation_per_account(Tail(user_data))

RECURSIVE sum_reputation(_)
sum_reputation(user_data) ==
    IF user_data = <<>> THEN 0
    ELSE Head(user_data).reputation + sum_reputation(Tail(user_data))

\* variant: every candidate is kept, whatever its reputation
user_data_of_unfiltered(rep, users) ==
    [i \in 1 .. Len(users) |-> [account |-> users[i], reputation |-> rep[users[i]]]]

\* the first loop of calculate_dividend_shares: candidates with rep > 0
user_data_of(rep, users) ==
    LET kept == SelectSeq(users, LAMBDA u : rep[u] > 0)
    IN  [i \in 1 .. Len(kept) |-> [account |-> kept[i], reputation |-> rep[kept[i]]]]

\* variant: the share is rounded to the nearest integer, as round(a / b) does
dividend_of_rounded(reputation, total_amount, total_reputation_score) ==
    IF total_reputation_score > 0
    THEN (2 * reputation * total_amount + total_reputation_score)
             \div (2 * total_reputation_score)
    ELSE 0

\* dividend = (data["reputation"] * total_dividend_amount) // total_reputation_score
dividend_of(reputation, total_amount, total_reputation_score) ==
    IF total_reputation_score > 0
    THEN (reputation * total_amount) \div total_reputation_score
    ELSE 0

\* hashed_leaves of a list of {account, amount}
hashed_leaves_of(leaves_data) ==
    [i \in 1 .. Len(leaves_data) |->
        solidityKeccak(leaves_data[i].account, leaves_data[i].amount)]

\* variant: a share whose amount is 0 is left out of the result and the tree
calculate_dividend_shares_nonzero_only(rep, users, total_amount) ==
    LET user_data == user_data_of(rep, users)
        total_reputation_score == sum_reputation(user_data)
        all_shares ==
            [i \in 1 .. Len(user_data) |->
                [account |-> user_data[i].account,
                 reputation |-> user_data[i].reputation,
                 amount |-> dividend_of(user_data[i].reputation, total_amount,
                                        total_reputation_score)]]
        detailed_user_shares == SelectSeq(all_shares, LAMBDA d : d.amount > 0)
        hashed_leaves ==
            [i \in 1 .. Len(detailed_user_shares) |->
                solidityKeccak(detailed_user_shares[i].account,
                               detailed_user_shares[i].amount)]
    IN  IF total_reputation_score = 0
        THEN [shares |-> <<>>,
              hashed_leaves |-> <<>>,
              root |-> to_hex(mock_root(MockInternalMerkleTree(<<>>))),
              total |-> 0]
        ELSE [shares |-> detailed_user_shares,
              hashed_leaves |-> hashed_leaves,
              root |-> to_hex(mock_root(MockInternalMerkleTree(hashed_leaves))),
              total |-> total_reputation_score]

\* calculate_dividend_shares(rain_reputation_contract, user_addresses, total):
\* the returned triple, and the hashed_leaves handed to MerkleTree(...)
calculate_dividend_shares(rep, users, total_amount) ==
    LET user_data == user_data_of(rep, users)
        total_reputation_score == sum_reputation(user_data)
        detailed_user_shares ==
            [i \in 1 .. Len(user_data) |->
                [account |-> user_data[i].account,
                 reputation |-> user_data[i].reputation,
                 amount |-> dividend_of(user_data[i].reputation, total_amount,
                                        total_reputation_score)]]
        leaves_data_for_tree ==
            [i \in 1 .. Len(detailed_user_shares) |->
                [account |-> detailed_user_shares[i].account,
                 amount |-> detailed_user_shares[i].amount]]
        hashed_leaves == hashed_leaves_of(leaves_data_for_tree)
    IN  IF total_reputation_score = 0
        THEN [shares |-> <<>>,
              hashed_leaves |-> <<>>,
              root |-> to_hex(mock_root(MockInternalMerkleTree(<<>>))),
              total |-> 0]
        ELSE [shares |-> detailed_user_shares,
              hashed_leaves |-> hashed_leaves,
              root |-> to_hex(mock_root(MockInternalMerkleTree(hashed_leaves))),
              total |-> total_reputation_score]

\* get_merkle_proof(leaves_data, user_address, user_amount)
get_merkle_proof(leaves_data, user_address, user_amount) ==
    LET merkle_tree_instance == MockInternalMerkleTree(hashed_leaves_of(leaves_data))
        user_leaf == solidityKeccak(user_address, user_amount)
        r == mock_get_proof(merkle_tree_instance, user_leaf)
    IN  [exc |-> r.exc,
         proof |-> [i \in 1 .. Len(r.proof) |-> to_hex(r.proof[i])]]

\* variant: shares of amount 0 are left out of the list
all_leaves_for_proof_nonzero(calculated_shares) ==
    LET kept == SelectSeq(calculated_shares, LAMBDA d : d.amount > 0)
    IN  [i \in 1 .. Len(kept) |-> [account |-> kept[i].account, amount |-> kept[i].amount]]

\* all_leaves_for_proof of the distribution script
all_leaves_for_proof(calculated_shares) ==
    [i \in 1 .. Len(calculated_shares) |->
        [account |-> calculated_shares[i].account,
         amount |-> calculated_shares[i].amount]]

----------------------------------------------------------------------------
(* One dividend cycle as a state machine: the distribution script computes  *)
(* the shares once, then a claimant fetches a proof and submits a claim.     *)

InitDiv ==
    /\ leaves_arg = <<>>
    /\ tree = NoTree
    /\ ret = NoRet
    /\ reputationScores \in [Accounts -> 0 .. MaxRep]
    /\ user_addresses \in SeqsUpTo(Accounts, MaxUsers)
    /\ total_dividend_amount \in 0 .. MaxPayout
    /\ shares_ret = NoShares
    /\ proof_ret = NoProof
    /\ verify_ret = NoVerify
    /\ MerkleTree \in MerkleTreeBindings
    /\ reputation_calls = <<>>
    /\ keccak_count = 0
    /\ BuildIdle
    /\ FeeIdle

\* variant: the library check comes after the reputation loop
CalculateDividendShares_late_check ==
    /\ shares_ret.op = "none"
    /\ IF MerkleTree = None
       THEN /\ shares_ret' = [NoShares EXCEPT !.op = "calculate_dividend_shares",
                                              !.exc = "EnvironmentError"]
            /\ reputation_calls' =
                   reputation_calls \o reputation_lookups(user_addresses)
            /\ UNCHANGED keccak_count
       ELSE LET r == calculate_dividend_shares(reputationScores, user_addresses,
                                               total_dividend_amount)
            IN  /\ shares_ret' = [op |-> "calculate_dividend_shares", exc |-> "",
                                  shares |-> r.shares,
                                  hashed_leaves |-> r.hashed_leaves,
                                  root |-> r.root, total |-> r.total]
                /\ reputation_calls' =
                       reputation_calls \o reputation_lookups(user_addresses)
                /\ keccak_count' = keccak_count + Len(r.hashed_leaves)
    /\ UNCHANGED <<proof_ret, verify_ret>>
    /\ UNCHANGED cycleVars
    /\ UNCHANGED treeVars
    /\ UNCHANGED <<buildVars, feeVars>>

\* shares, root, total = calculate_dividend_shares(contract, users, total)
CalculateDividendShares ==
    /\ shares_ret.op = "none"
    /\ IF MerkleTree = None
       THEN /\ shares_ret' = [NoShares EXCEPT !.op = "calculate_dividend_shares",
                                              !.exc = "EnvironmentError"]
            /\ UNCHANGED callVars
       ELSE LET r == calculate_dividend_shares(reputationScores, user_addresses,
                                               total_dividend_amount)
            IN  /\ shares_ret' = [op |-> "calculate_dividend_shares", exc |-> "",
                                  shares |-> r.shares,
                                  hashed_leaves |-> r.hashed_leaves,
                                  root |-> r.root, total |-> r.total]
                /\ reputation_calls' =
                       reputation_calls \o reputation_lookups(user_addresses)
                /\ keccak_count' = keccak_count + Len(r.hashed_leaves)
    /\ UNCHANGED <<proof_ret, verify_ret>>
    /\ UNCHANGED cycleVars
    /\ UNCHANGED treeVars
    /\ UNCHANGED <<buildVars, feeVars>>

\* proof = get_merkle_proof(all_leaves_for_proof, account, amount)
GetMerkleProof(account, amount) ==
    /\ shares_ret.op = "calculate_dividend_shares"
    /\ proof_ret.op = "none"
    /\ LET leaves_data == all_leaves_for_proof(shares_ret.shares)
       IN  IF MerkleTree = None
           THEN /\ proof_ret' = [op |-> "get_merkle_proof", account |-> account,
                                 amount |-> amount, exc |-> "EnvironmentError",
                                 proof |-> <<>>]
                /\ UNCHANGED keccak_count
           ELSE LET r == get_merkle_proof(leaves_data, account, amount)
                IN  /\ proof_ret' = [op |-> "get_merkle_proof", account |-> account,
                                      amount |-> amount, exc |-> r.exc,
                                      proof |-> r.proof]
                    /\ keccak_count' = keccak_count + Len(leaves_data) + 1
    /\ UNCHANGED reputation_calls
    /\ UNCHANGED <<shares_ret, verify_ret>>
    /\ UNCHANGED cycleVars
    /\ UNCHANGED treeVars
    /\ UNCHANGED <<buildVars, feeVars>>

\* the claimant states an amount; its leaf is replayed with the proof last
\* generated for the claimant's account against the published root
VerifyProof(amount) ==
    /\ proof_ret.op = "get_merkle_proof"
    /\ proof_ret.exc = ""
    /\ verify_ret.op = "none"
    /\ verify_ret' =
          [op |-> "verify", amount |-> amount,
           ok |-> verify_merkle_proof(
                      from_hex(shares_ret.root),
                      solidityKeccak(proof_ret.account, amount),
                      [i \in 1 .. Len(proof_ret.proof) |-> from_hex(proof_ret.proof[i])])]
    /\ UNCHANGED <<shares_ret, proof_ret>>
    /\ UNCHANGED callVars
    /\ UNCHANGED cycleVars
    /\ UNCHANGED treeVars
    /\ UNCHANGED <<buildVars, feeVars>>

NextDiv ==
    \/ CalculateDividendShares
    \/ \E account \in Accounts, amount \in Amounts : GetMerkleProof(account, amount)
    \/ \E amount \in 0 .. MaxPayout + 1 : VerifyProof(amount)

SpecDiv == InitDiv /\ [][NextDiv]_vars

----------------------------------------------------------------------------
(* OZMerkleTree.__init__ statement by statement, for the trees of two       *)
(* dividend cycles built side by side.                                      *)

BuildVals == 0 .. (NumBuildVals - 1)

\* the leaf lists of a cycle: any list shorter than MaxBuildLeaves, and the
\* lists of MaxBuildLeaves entries that arrive in ascending order
BuildLists ==
    SeqsUpTo(BuildVals, MaxBuildLeaves - 1)
        \cup { s \in [1 .. MaxBuildLeaves -> BuildVals] :
                  \A i \in 1 .. (MaxBuildLeaves - 1) : s[i] <= s[i + 1] }

InitBuild ==
    /\ TreeIdle
    /\ DivIdle
    /\ FeeIdle
    /\ cycle_leaves \in [Cycles -> BuildLists]
    /\ instances = [c \in Cycles |-> NoInstance]
    /\ cycle_proofs = [c \in Cycles |-> NoCycleProof]

\* self.leaves = sorted(leaves); self.levels = [self.leaves]
BeginInit(c) ==
    /\ instances[c].pc = "new"
    /\ instances' = [instances EXCEPT ![c] =
                        [pc |-> "while", leaves |-> sorted(cycle_leaves[c]),
                         levels |-> << sorted(cycle_leaves[c]) >>]]
    /\ UNCHANGED <<cycle_leaves, cycle_proofs>>
    /\ UNCHANGED <<treeVars, divVars, feeVars>>

\* variant: every pass hashes level 0 and stores the result as level 1
AddLevel_from_level0(c) ==
    /\ instances[c].pc = "while"
    /\ Len(Last(instances[c].levels)) > 1
    /\ instances' = [instances EXCEPT ![c].levels =
                        << instances[c].leaves, next_level(instances[c].leaves) >>]
    /\ UNCHANGED <<cycle_leaves, cycle_proofs>>
    /\ UNCHANGED <<treeVars, divVars, feeVars>>

\* one pass of the loop: len(self.levels[-1]) > 1, then self._add_level()
AddLevel(c) ==
    /\ instances[c].pc = "while"
    /\ Len(Last(instances[c].levels)) > 1
    /\ instances' = [instances EXCEPT ![c].levels = _add_level(instances[c].levels)]
    /\ UNCHANGED <<cycle_leaves, cycle_proofs>>
    /\ UNCHANGED <<treeVars, divVars, feeVars>>

\* the loop condition is false: __init__ returns and the object is handed
\* to the caller
EndInit(c) ==
    /\ instances[c].pc = "while"
    /\ ~(Len(Last(instances[c].levels)) > 1)
    /\ instances' = [instances EXCEPT ![c].pc = "returned"]
    /\ UNCHANGED <<cycle_leaves, cycle_proofs>>
    /\ UNCHANGED <<treeVars, divVars, feeVars>>

\* variant: the object is reachable as soon as self.levels exists
InstanceGetProof_during_init(c, leaf) ==
    /\ instances[c].pc \in {"while", "returned"}
    /\ cycle_proofs[c].op = "none"
    /\ LET r == get_proof(instances[c], leaf)
       IN  cycle_proofs' = [cycle_proofs EXCEPT ![c] =
                               [op |-> "get_proof", leaf |-> leaf, exc |-> r.exc,
                                proof |-> r.proof,
                                levels_read |-> instances[c].levels]]
    /\ UNCHANGED <<cycle_leaves, instances>>
    /\ UNCHANGED <<treeVars, divVars, feeVars>>

\* tree.get_proof(leaf) on the object __init__ returned
InstanceGetProof(c, leaf) ==
    /\ instances[c].pc = "returned"
    /\ cycle_proofs[c].op = "none"
    /\ LET r == get_proof(instances[c], leaf)
       IN  cycle_proofs' = [cycle_proofs EXCEPT ![c] =
                               [op |-> "get_proof", leaf |-> leaf, exc |-> r.exc,
                                proof |-> r.proof,
                                levels_read |-> instances[c].levels]]
    /\ UNCHANGED <<cycle_leaves, instances>>
    /\ UNCHANGED <<treeVars, divVars, feeVars>>

\* variant: self.levels is one list shared by all instances still in __init__
CycleStep_shared_levels(c) ==
    \/ BeginInit(c)
    \/ /\ instances[c].pc = "while"
       /\ Len(Last(instances[c].levels)) > 1
       /\ instances' = [d \in Cycles |->
                           IF instances[d].pc = "while"
                           THEN [instances[d] EXCEPT
                                    !.levels = _add_level(instances[c].levels)]
                           ELSE instances[d]]
       /\ UNCHANGED <<cycle_leaves, cycle_proofs>>
       /\ UNCHANGED <<treeVars, divVars, feeVars>>
    \/ EndInit(c)
    \/ \E leaf \in BuildVals : InstanceGetProof(c, leaf)

\* the statements of cycle c; the two cycles take turns in any order
CycleStep(c) ==
    \/ BeginInit(c)
    \/ AddLevel(c)
    \/ EndInit(c)
    \/ \E leaf \in BuildVals : InstanceGetProof(c, leaf)

NextBuild == \E c \in Cycles : CycleStep(c)

SpecBuild == InitBuild /\ [][NextBuild]_vars

\* a constructor that was entered keeps running: Python executes the loop
\* of __init__ to its end without waiting for anything
SpecBuildFair ==
    /\ InitBuild
    /\ [][NextBuild]_vars
    /\ \A c \in Cycles : WF_vars(AddLevel(c) \/ EndInit(c))

----------------------------------------------------------------------------
(* rain/protocol_fee.py and the keeper script that applies its result *)

\* DEFAULT_SAFETY_MARGIN = 1.5, as a number of halves
SafetyMarginHalves == 3

\* total reputation is 0 or a power of two: last_dividend_amount /
\* total_reputation and the two products that follow are then exact in
\* binary floating point
TotalReputations == {0} \cup { 2 ^ k : k \in 0 .. MaxRepLog }

\* what getCycleDetails does for one cycle id: raise, or return a tuple
\* whose third element is totalAmount
CycleOutcomes ==
    { [raises |-> TRUE, totalAmount |-> 0] }
        \cup { [raises |-> FALSE, totalAmount |-> a] : a \in 0 .. MaxCycleAmount }

Call(fn, arg) == [fn |-> fn, arg |-> arg]

\* MockTreasuryV2.getCycleDetails: (merkleRoot, totalRewards, totalAmount,
\* startBlock, endBlock), or an exception
getCycleDetails(details, cycle_id) ==
    IF details[cycle_id].raises
    THEN [exc |-> "Exception", tuple |-> <<>>]
    ELSE [exc |-> "", tuple |-> <<0, 0, details[cycle_id].totalAmount, 0, 0>>]

\* math.ceil(n / d) for n >= 0, d > 0
ceil_div(n, d) == (n + d - 1) \div d

\* variant: the treasury is asked for its cycles before total reputation
\* is looked at
calculate_new_protocol_fee_treasury_first(total_reputation, num_cycles, details, _rep_gain) ==
    LET read0 == << Call("protocolFee", -1), Call("totalReputation", -1),
                    Call("getNumberOfCycles", -1) >>
        last_cycle_id == num_cycles - 1
        read1 == Append(read0, Call("getCycleDetails", last_cycle_id))
    IN  IF total_reputation = 0 \/ num_cycles = 0
        THEN [none |-> TRUE, value |-> 0, exc |-> "", calls |-> read0]
        ELSE LET last_cycle_details == getCycleDetails(details, last_cycle_id)
             IN  IF last_cycle_details.exc # ""
                 THEN [none |-> TRUE, value |-> 0, exc |-> "", calls |-> read1]
                 ELSE LET last_dividend_amount == last_cycle_details.tuple[3]
                      IN  IF last_dividend_amount = 0
                          THEN [none |-> TRUE, value |-> 0, exc |-> "", calls |-> read1]
                          ELSE [none |-> FALSE,
                                value |-> ceil_div(last_dividend_amount * _rep_gain
                                                       * SafetyMarginHalves,
                                                   total_reputation * 2),
                                exc |-> "", calls |-> read1]

\* calculate_new_protocol_fee(calculus_engine, rain_reputation, treasury_v2,
\* rep_gain_on_fulfillment, safety_margin = DEFAULT_SAFETY_MARGIN): the
\* returned value (none = the function returned None) and the contract
\* calls it made, in order
calculate_new_protocol_fee(total_reputation, num_cycles, details, _rep_gain) ==
    LET read0 == << Call("protocolFee", -1), Call("totalReputation", -1) >>
        read1 == Append(read0, Call("getNumberOfCycles", -1))
        last_cycle_id == num_cycles - 1
        read2 == Append(read1, Call("getCycleDetails", last_cycle_id))
    IN  IF total_reputation = 0
        THEN [none |-> TRUE, value |-> 0, exc |-> "", calls |-> read0]
        ELSE IF num_cycles = 0
        THEN [none |-> TRUE, value |-> 0, exc |-> "", calls |-> read1]
        ELSE LET last_cycle_details == getCycleDetails(details, last_cycle_id)
             IN  IF last_cycle_details.exc # ""
                 THEN [none |-> TRUE, value |-> 0, exc |-> "", calls |-> read2]
                 ELSE LET last_dividend_amount == last_cycle_details.tuple[3]
                      IN  IF last_dividend_amount = 0
                          THEN [none |-> TRUE, value |-> 0, exc |-> "", calls |-> read2]
                          ELSE [none |-> FALSE,
                                value |-> ceil_div(last_dividend_amount * _rep_gain
                                                       * SafetyMarginHalves,
                                                   total_reputation * 2),
                                exc |-> "", calls |-> read2]

InitFee ==
    /\ TreeIdle
    /\ DivIdle
    /\ BuildIdle
    /\ protocolFee \in 0 .. MaxFee
    /\ totalReputation \in TotalReputations
    /\ numberOfCycles \in 0 .. MaxCycles
    /\ cycleDetails \in [0 .. (MaxCycles - 1) -> CycleOutcomes]
    /\ rep_gain_on_fulfillment \in 1 .. MaxRepGain
    /\ contract_calls = <<>>
    /\ fee_ret = NoFee

\* new_protocol_fee = calculate_new_protocol_fee(...)
CalculateNewProtocolFee ==
    /\ fee_ret.op = "none"
    /\ LET r == calculate_new_protocol_fee(totalReputation, numberOfCycles,
                                           cycleDetails, rep_gain_on_fulfillment)
       IN  /\ fee_ret' = [op |-> "calculate_new_protocol_fee", none |-> r.none,
                          value |-> r.value, exc |-> r.exc]
           /\ contract_calls' = contract_calls \o r.calls
    /\ UNCHANGED protocolFee
    /\ UNCHANGED feeInputs
    /\ UNCHANGED <<treeVars, divVars, buildVars>>

\* the keeper submits a fee that is not None and differs from the current
\* one; the transaction goes through or fails
SetProtocolFee(ok) ==
    /\ fee_ret.op = "calculate_new_protocol_fee"
    /\ ~fee_ret.none
    /\ fee_ret.value # protocolFee
    /\ protocolFee' = IF ok THEN fee_ret.value ELSE protocolFee
    /\ contract_calls' =
          IF ok
          THEN contract_calls \o << Call("setProtocolFee", fee_ret.value),
                                    Call("protocolFee", -1) >>
          ELSE Append(contract_calls, Call("setProtocolFee", fee_ret.value))
    /\ fee_ret' = [fee_ret EXCEPT !.op = "setProtocolFee"]
    /\ UNCHANGED feeInputs
    /\ UNCHANGED <<treeVars, divVars, buildVars>>

NextFee ==
    \/ CalculateNewProtocolFee
    \/ \E ok \in BOOLEAN : SetProtocolFee(ok)

SpecFee == InitFee /\ [][NextFee]_vars

----------------------------------------------------------------------------
(* Properties of the tree (checked under Spec) *)

\* the values a forger can put into entry i of proof p: every leaf value,
\* bytes32(0), every node of the tree up to the level entry i comes from,
\* and the two neighbours of the genuine entry (a flipped low bit)
TamperVals(p, i) ==
    LeafVals \cup {ZeroRoot}
        \cup UNION { Elems(tree.levels[k]) : k \in 1 .. i }
        \cup {p[i] + 1, IF p[i] > 0 THEN p[i] - 1 ELSE p[i] + 1}

\* b is a reordering of a
IsPermutation(a, b) ==
    /\ Len(a) = Len(b)
    /\ \A v \in Elems(a) \cup Elems(b) :
          Cardinality({i \in 1 .. Len(a) : a[i] = v})
              = Cardinality({i \in 1 .. Len(b) : b[i] = v})

\* C1: round trip.  For every non-empty leaf list and every value L in it,
\* get_proof(L) raises nothing and replaying the returned proof from L with
\* the sorted-pair rule ends exactly at the root of the tree.
C1_RoundTrip ==
    (ret.op = "get_proof" /\ ret.leaf \in Elems(leaves_arg))
        => /\ ret.exc = ""
           /\ replay(ret.leaf, ret.proof) = root(tree)
           /\ verify_merkle_proof(root(tree), ret.leaf, ret.proof)

\* a proof of three entries whose first entry is the leaf itself (the leaf is
\* the odd last node of five) has been generated
C1_Witness ==
    /\ ret.op = "get_proof"
    /\ ret.exc = ""
    /\ Len(ret.proof) = 3
    /\ ret.proof[1] = ret.leaf
    /\ leaves_arg # tree.leaves

\* C2: order independence.  Building the tree again from any reordering of
\* the leaf list gives identical levels, an equal root and, for every value,
\* the identical get_proof outcome.
C2_OrderIndependence ==
    [][ (tree.built /\ tree'.built /\ IsPermutation(leaves_arg, leaves_arg'))
            => /\ tree'.levels = tree.levels
               /\ tree'.leaves = tree.leaves
               /\ root(tree') = root(tree)
               /\ \A L \in LeafVals \cup {root(tree)} :
                      get_proof(tree', L) = get_proof(tree, L) ]_vars

\* a tree of at least three levels has been built again from a reordered,
\* unsorted list
C2_Witness ==
    /\ ret.op = "rebuild"
    /\ leaves_arg # tree.leaves
    /\ Len(tree.levels) >= 3

\* C3: tamper sensitivity.  For a leaf L with its generated proof p:
\* (a) p with any single entry replaced by a different value does not verify
\* L against the root; (b) the proof generated for any other leaf of a
\* different value does not verify L against the root.
C3_TamperSensitivity ==
    (ret.op = "get_proof" /\ ret.exc = "")
        => /\ \A i \in 1 .. Len(ret.proof) :
                 \A v \in TamperVals(ret.proof, i) \ {ret.proof[i]} :
                    ~verify_merkle_proof(root(tree), ret.leaf,
                                         [ret.proof EXCEPT ![i] = v])
           /\ \A other \in Elems(tree.leaves) \ {ret.leaf} :
                 ~verify_merkle_proof(root(tree), ret.leaf,
                                      get_proof(tree, other).proof)

\* a proof of at least two entries exists in a tree that also holds a leaf of
\* a different value
C3_Witness ==
    /\ ret.op = "get_proof"
    /\ ret.exc = ""
    /\ Len(ret.proof) >= 2
    /\ Elems(tree.leaves) \ {ret.leaf} # {}

\* C8: leaf not found.  get_proof with a value absent from level 0 raises
\* ValueError and returns no proof, for every tree, the empty one included.
C8_LeafNotFound ==
    (ret.op = "get_proof" /\ ret.leaf \notin Elems(tree.levels[1]))
        => /\ ret.exc = "ValueError"
           /\ ret.proof = <<>>

\* a lookup on the tree built from the empty list has raised
C8_Witness ==
    /\ ret.op = "get_proof"
    /\ leaves_arg = <<>>
    /\ ret.exc = "ValueError"

\* C9: empty-tree convention.  The tree built from the empty list has the
\* single empty level 0, its root reads as bytes32(0), and reading it raises
\* nothing.
C9_EmptyRoot ==
    (tree.built /\ leaves_arg = <<>>)
        => /\ tree.levels = << <<>> >>
           /\ root(tree) = ZeroRoot
           /\ (ret.op = "root" => ret.value = ZeroRoot /\ ret.exc = "")

\* the root of the tree built from the empty list has been read
C9_Witness ==
    /\ tree.built
    /\ leaves_arg = <<>>
    /\ ret.op = "root"

\* C10: single-leaf identity.  The tree built from [L] keeps level 0 as its
\* only level (nothing is hashed), its root is L, and get_proof(L) returns
\* the empty proof.
C10_SingleLeaf ==
    (tree.built /\ Len(leaves_arg) = 1)
        => /\ tree.levels = <<leaves_arg>>
           /\ root(tree) = leaves_arg[1]
           /\ (ret.op = "root" => ret.value = leaves_arg[1])
           /\ (ret.op = "get_proof" /\ ret.leaf = leaves_arg[1]
                  => ret.exc = "" /\ ret.proof = <<>>)

\* the proof of the only leaf of a one-leaf tree has been generated
C10_Witness ==
    /\ tree.built
    /\ Len(leaves_arg) = 1
    /\ ret.op = "get_proof"
    /\ ret.leaf = leaves_arg[1]

\* the smallest k with 2^k >= n
CeilLog2(n) == CHOOSE k \in 0 .. n : 2 ^ k >= n /\ (k = 0 \/ 2 ^ (k - 1) < n)

\* the 0-based position of the first entry of s equal to x
FirstPosition(s, x) ==
    (CHOOSE i \in 1 .. Len(s) : s[i] = x /\ \A j \in 1 .. Len(s) : s[j] = x => i <= j) - 1

\* the hash of a pair under the min/max rule
SortedPairHash(a, b) ==
    IF a < b THEN _solidity_keccak256(a, b) ELSE _solidity_keccak256(b, a)

\* the siblings met on the way up from position index of level 0: the right
\* neighbour of an even position (the node itself when there is none), the
\* left neighbour of an odd one
SiblingPath(levels, index) ==
    [k \in 1 .. (Len(levels) - 1) |->
        LET idx == index \div (2 ^ (k - 1))
            lvl == levels[k]
        IN  IF idx % 2 = 1 THEN lvl[idx]
            ELSE IF idx + 1 < Len(lvl) THEN lvl[idx + 2]
            ELSE lvl[idx + 1]]

\* C11: proof length.  In a tree built from n > 1 leaves, get_proof of any
\* leaf returns exactly ceil(log2(n)) sibling hashes, which is the number of
\* levels minus one.
C11_ProofLength ==
    (ret.op = "get_proof" /\ Len(tree.leaves) > 1 /\ ret.leaf \in Elems(tree.leaves))
        => /\ ret.exc = ""
           /\ Len(ret.proof) = CeilLog2(Len(tree.leaves))
           /\ Len(ret.proof) = Len(tree.levels) - 1

\* the proof of the odd last leaf of a tree whose leaf count is not a power
\* of two has been generated
C11_Witness ==
    /\ ret.op = "get_proof"
    /\ ret.exc = ""
    /\ Len(tree.leaves) \in {3, 5}
    /\ ret.leaf = Last(tree.leaves)
    /\ Len(ret.proof) = CeilLog2(Len(tree.leaves))

\* C12: odd-level duplication.  At every level with an odd number of nodes
\* the parent of the last node x is hash(x, x), and a proof whose path passes
\* through x has x itself as its entry of that level; three sorted leaves
\* A, B, C give root = hash(hash(A,B), hash(C,C)) under the min/max rule and
\* proof(C) = [C, hash(A,B)].
C12_OddLevelDuplication ==
    tree.built
        => /\ \A k \in 1 .. (Len(tree.levels) - 1) :
                 Len(tree.levels[k]) % 2 = 1
                     => LET x == Last(tree.levels[k])
                        IN  /\ Last(tree.levels[k + 1]) = _solidity_keccak256(x, x)
                            /\ (ret.op = "get_proof" /\ ret.exc = ""
                                  /\ FirstPosition(tree.leaves, ret.leaf) \div (2 ^ (k - 1))
                                         = Len(tree.levels[k]) - 1)
                                  => ret.proof[k] = x
           /\ Len(tree.leaves) = 3
                 => LET A == tree.leaves[1]
                        B == tree.leaves[2]
                        C == tree.leaves[3]
                    IN  /\ root(tree) = SortedPairHash(SortedPairHash(A, B),
                                                       SortedPairHash(C, C))
                        /\ B < C => get_proof(tree, C)
                                       = [exc |-> "", proof |-> <<C, SortedPairHash(A, B)>>]
                        /\ (B < C /\ ret.op = "get_proof" /\ ret.leaf = C)
                              => ret.proof = <<C, SortedPairHash(A, B)>>

\* the proof of the largest of three distinct leaves has been generated
C12_Witness ==
    /\ ret.op = "get_proof"
    /\ Len(tree.leaves) = 3
    /\ tree.leaves[2] < tree.leaves[3]
    /\ ret.leaf = tree.leaves[3]
    /\ ret.proof[1] = ret.leaf

\* C13: five leaves.  Five sorted leaves A..E give level1 = [h(A,B), h(C,D),
\* h(E,E)], level2 = [h(h(A,B),h(C,D)), h(h(E,E),h(E,E))], root = h of those
\* two, proof(E) = [E, h(E,E), h(h(A,B),h(C,D))], proof(A) = [B, h(C,D),
\* h(h(E,E),h(E,E))] and proof(C) = [D, h(A,B), h(h(E,E),h(E,E))].
C13_FiveLeaves ==
    (tree.built /\ Len(tree.leaves) = 5
        /\ \A i \in 1 .. 4 : tree.leaves[i] < tree.leaves[i + 1])
        => LET A == tree.leaves[1]
               B == tree.leaves[2]
               C == tree.leaves[3]
               D == tree.leaves[4]
               E == tree.leaves[5]
               hAB == SortedPairHash(A, B)
               hCD == SortedPairHash(C, D)
               hEE == SortedPairHash(E, E)
               hABCD == SortedPairHash(hAB, hCD)
               hEEEE == SortedPairHash(hEE, hEE)
           IN  /\ tree.levels = << <<A, B, C, D, E>>, <<hAB, hCD, hEE>>,
                                   <<hABCD, hEEEE>>,
                                   <<SortedPairHash(hABCD, hEEEE)>> >>
               /\ root(tree) = SortedPairHash(hABCD, hEEEE)
               /\ get_proof(tree, E) = [exc |-> "", proof |-> <<E, hEE, hABCD>>]
               /\ get_proof(tree, A) = [exc |-> "", proof |-> <<B, hCD, hEEEE>>]
               /\ get_proof(tree, C) = [exc |-> "", proof |-> <<D, hAB, hEEEE>>]
               /\ (ret.op = "get_proof" /\ ret.leaf = E)
                     => ret.proof = <<E, hEE, hABCD>>

\* the proof of the largest of five distinct leaves has been generated
C13_Witness ==
    /\ ret.op = "get_proof"
    /\ Len(tree.leaves) = 5
    /\ ret.leaf = tree.leaves[5]
    /\ Len(tree.levels) = 4
    /\ ret.proof[2] = tree.levels[2][3]

\* C17: first occurrence.  When a value L occurs more than once in the leaf
\* list, get_proof(L) raises nothing, returns the sibling path of the lowest
\* position of sorted level 0 that holds L, and that proof verifies L
\* against the root.
C17_FirstOccurrence ==
    (ret.op = "get_proof"
        /\ Cardinality({i \in 1 .. Len(tree.leaves) : tree.leaves[i] = ret.leaf}) > 1)
        => /\ ret.exc = ""
           /\ ret.proof = SiblingPath(tree.levels, FirstPosition(tree.leaves, ret.leaf))
           /\ verify_merkle_proof(root(tree), ret.leaf, ret.proof)

\* the proof of a value held by the last two of three leaves has been
\* generated (the paths of its two positions differ)
C17_Witness ==
    /\ ret.op = "get_proof"
    /\ Len(tree.leaves) = 3
    /\ tree.leaves[1] < tree.leaves[2]
    /\ tree.leaves[2] = tree.leaves[3]
    /\ ret.leaf = tree.leaves[3]

\* C18: level invariant.  After construction from a non-empty list every
\* level has at least one node, level i+1 has ceil(len(level i) / 2) nodes
\* and the last level has exactly one node; from the empty list the only
\* level is the empty level 0.
C18_LevelInvariant ==
    tree.built
        => IF leaves_arg # <<>>
           THEN /\ Len(tree.levels) >= 1
                /\ Len(tree.levels[1]) = Len(leaves_arg)
                /\ \A k \in 1 .. Len(tree.levels) : Len(tree.levels[k]) >= 1
                /\ \A k \in 1 .. (Len(tree.levels) - 1) :
                      Len(tree.levels[k + 1]) = (Len(tree.levels[k]) + 1) \div 2
                /\ Len(Last(tree.levels)) = 1
           ELSE tree.levels = << <<>> >>

\* a tree with two odd levels below the root has been built
C18_Witness ==
    /\ tree.built
    /\ Len(tree.levels) = 4
    /\ Len(tree.levels[1]) = 5
    /\ Len(tree.levels[2]) = 3

\* C19: immutability.  A get_proof call (returning or raising not-found) or
\* a root read leaves tree.leaves, tree.levels and tree.root as they were,
\* and get_proof asked again for the same value returns the same outcome.
C19_Immutable ==
    [][ (tree.built /\ ret'.op \in {"get_proof", "root"})
            => /\ tree'.leaves = tree.leaves
               /\ tree'.levels = tree.levels
               /\ root(tree') = root(tree)
               /\ (ret.op = "get_proof" /\ ret'.op = "get_proof"
                     /\ ret'.leaf = ret.leaf)
                     => (ret'.exc = ret.exc /\ ret'.proof = ret.proof) ]_vars

\* a proof passing through a duplicated odd node has been generated on a
\* tree of three levels
C19_Witness ==
    /\ tree.built
    /\ ret.op = "get_proof"
    /\ ret.exc = ""
    /\ Len(tree.levels) = 3
    /\ Len(tree.leaves) = 3
    /\ ret.proof[1] = ret.leaf
    /\ tree.leaves = sorted(leaves_arg)

\* s is in ascending order
IsAscending(s) == \A i \in 1 .. (Len(s) - 1) : s[i] <= s[i + 1]

\* the values tried as entry i of a candidate proof: every leaf value and
\* every node of the tree up to the level entry i is hashed at
ProbeVals(i) == LeafVals \cup UNION { Elems(tree.levels[k]) : k \in 1 .. i }

\* the candidate proofs of d entries
RECURSIVE ProbeProofs(_)
ProbeProofs(d) ==
    IF d = 0 THEN { <<>> }
    ELSE { Append(p, v) : p \in ProbeProofs(d - 1), v \in ProbeVals(d) }

\* C24: level 0.  Level 0 of a built tree is the ascending sort of the
\* caller's list with exactly the same multiset of values (repeats kept as
\* separate entries, nothing added, dropped or re-hashed), and construction
\* leaves the caller's list as it was.
C24_LevelZeroIsSortedInput ==
    [][ (tree'.built /\ ret'.op \in {"__init__", "rebuild"})
            => /\ tree'.levels[1] = tree'.leaves
               /\ Len(tree'.levels[1]) = Len(leaves_arg')
               /\ IsAscending(tree'.levels[1])
               /\ IsPermutation(leaves_arg', tree'.levels[1])
               /\ Elems(tree'.levels[1]) \subseteq LeafVals
               /\ ret'.op = "__init__" => leaves_arg' = leaves_arg ]_vars

\* a tree has been constructed from an unsorted list that repeats a value
C24_Witness ==
    /\ tree.built
    /\ ret.op = "__init__"
    /\ Cardinality(Elems(leaves_arg)) < Len(leaves_arg)
    /\ ~IsAscending(leaves_arg)
    /\ Len(tree.levels[1]) = Len(leaves_arg)

\* C25: MockInternalMerkleTree and OZMerkleTree built from the same list of
\* pre-hashed leaves have the same sorted leaves, levels and root, and for
\* every queried value get_proof returns the same proof from both or raises
\* ValueError from both.
C25_MockEquivalence ==
    tree.built
        => LET m == MockInternalMerkleTree(leaves_arg)
           IN  /\ m.hashed_leaves = tree.leaves
               /\ m.levels = tree.levels
               /\ mock_root(m) = root(tree)
               /\ ret.op \in {"__init__", "rebuild"}
                     => \A q \in Queries :
                           LET a == mock_get_proof(m, q)
                               b == get_proof(tree, q)
                           IN  a.exc = b.exc /\ a.proof = b.proof
                                  /\ a.exc \in {"", "ValueError"}
               /\ ret.op = "get_proof"
                     => mock_get_proof(m, ret.leaf)
                            = [exc |-> ret.exc, proof |-> ret.proof]

\* both classes were asked for the proof of the odd last leaf of five, and
\* for a value that is not a leaf
C25_Witness ==
    /\ tree.built
    /\ Len(tree.leaves) = 5
    /\ ret.op = "get_proof"
    /\ \/ ret.exc = "ValueError"
       \/ ret.leaf = tree.leaves[5]

\* C27: index safety.  For a value present in level 0, at every level get_proof
\* visits the running index lies inside the level and the sibling index
\* lies inside the level's hashing view, so nothing is read out of range;
\* the hashing view of every level _add_level pairs up has even length.
C27_IndexSafety ==
    /\ (ret.op = "get_proof" /\ ret.leaf \in Elems(tree.levels[1]))
          => /\ ret.exc = ""
             /\ \A k \in 1 .. (Len(tree.levels) - 1) :
                   LET index == FirstPosition(tree.levels[1], ret.leaf) \div (2 ^ (k - 1))
                       sibling_index == IF index % 2 = 0 THEN index + 1 ELSE index - 1
                       view == Len(tree.levels[k]) + (Len(tree.levels[k]) % 2)
                   IN  /\ 0 <= index /\ index < Len(tree.levels[k])
                       /\ 0 <= sibling_index /\ sibling_index < view
                       /\ view = Len(nodes_for_hashing(tree.levels[k]))
    /\ tree.built
          => \A k \in 1 .. (Len(tree.levels) - 1) :
                /\ Len(nodes_for_hashing(tree.levels[k])) % 2 = 0
                /\ 2 * Len(tree.levels[k + 1]) = Len(nodes_for_hashing(tree.levels[k]))

\* the proof of a repeated value that is also the odd last leaf has been
\* generated
C27_Witness ==
    /\ ret.op = "get_proof"
    /\ ret.exc = ""
    /\ Len(tree.leaves) = 3
    /\ ret.leaf = tree.leaves[3]
    /\ ret.leaf = tree.leaves[2]
    /\ Len(ret.proof) = 2

\* C28: soundness.  For a non-empty tree, if replaying a list p of
\* len(levels) - 1 entries from a value x with the sorted-pair rule ends at
\* the root, then x is a leaf of the tree (hash collision-free, leaves never
\* equal to node digests).
C28_Soundness ==
    (tree.built /\ ret.op = "__init__" /\ tree.leaves # <<>> /\ leaves_arg = tree.leaves)
        => \A x \in LeafVals :
              \A p \in ProbeProofs(Len(tree.levels) - 1) :
                 verify_merkle_proof(root(tree), x, p) => x \in Elems(tree.leaves)

\* a five-leaf tree that leaves out one leaf value has been built
C28_Witness ==
    /\ tree.built
    /\ ret.op = "__init__"
    /\ leaves_arg = tree.leaves
    /\ Len(tree.leaves) >= 4
    /\ LeafVals \ Elems(tree.leaves) # {}
    /\ Len(tree.levels) >= 3

----------------------------------------------------------------------------
(* Properties of the dividend cycle (checked under SpecDiv) *)

\* the proof of proof_ret as bytes
proof_bytes == [i \in 1 .. Len(proof_ret.proof) |-> from_hex(proof_ret.proof[i])]

\* (account, amount) is an entry of the share list
IsShare(account, amount) ==
    \E i \in 1 .. Len(shares_ret.shares) :
        /\ shares_ret.shares[i].account = account
        /\ shares_ret.shares[i].amount = amount

RECURSIVE SumOf(_, _)
SumOf(f, n) == IF n = 0 THEN 0 ELSE f[n] + SumOf(f, n - 1)

\* C4: a tampered amount is rejected.  For an entry (account, amount) of the
\* share list with its generated proof p and any other amount a2, the leaf
\* hash(account, a2) does not verify with p against the published root, and
\* a claim stating a2 is not accepted.
C4_TamperedAmountRejected ==
    (proof_ret.op = "get_merkle_proof" /\ proof_ret.exc = ""
        /\ IsShare(proof_ret.account, proof_ret.amount))
        => /\ \A a2 \in (0 .. MaxPayout + 1) \ {proof_ret.amount} :
                 ~verify_merkle_proof(from_hex(shares_ret.root),
                                      solidityKeccak(proof_ret.account, a2),
                                      proof_bytes)
           /\ (verify_ret.op = "verify" /\ verify_ret.amount # proof_ret.amount
                  => ~verify_ret.ok)

\* a claim that states one unit more than the share, with the genuine
\* non-empty proof of that share, has been verified
C4_Witness ==
    /\ proof_ret.op = "get_merkle_proof"
    /\ proof_ret.exc = ""
    /\ Len(proof_ret.proof) >= 1
    /\ verify_ret.op = "verify"
    /\ verify_ret.amount = proof_ret.amount + 1

\* C5: share formula and sum.  The returned total T is the sum of the
\* reputations of the included accounts only, every share amount is
\* floor(reputation * total_payout / T), and the amounts sum to at most the
\* payout.
C5_ShareFormulaAndSum ==
    (shares_ret.op = "calculate_dividend_shares" /\ shares_ret.total > 0)
        => LET sh == shares_ret.shares
               T == shares_ret.total
               P == total_dividend_amount
           IN  /\ T = SumOf([i \in 1 .. Len(sh) |-> sh[i].reputation], Len(sh))
               /\ T = SumOf([i \in 1 .. Len(user_addresses) |->
                                reputationScores[user_addresses[i]]],
                            Len(user_addresses))
               /\ \A i \in 1 .. Len(sh) :
                     /\ sh[i].reputation = reputationScores[sh[i].account]
                     /\ sh[i].amount * T <= sh[i].reputation * P
                     /\ sh[i].reputation * P < (sh[i].amount + 1) * T
               /\ SumOf([i \in 1 .. Len(sh) |-> sh[i].amount], Len(sh)) <= P

\* shares have been computed where at least one division leaves a remainder
C5_Witness ==
    /\ shares_ret.op = "calculate_dividend_shares"
    /\ Len(shares_ret.shares) >= 2
    /\ \E i \in 1 .. Len(shares_ret.shares) :
          (shares_ret.shares[i].reputation * total_dividend_amount)
              % shares_ret.total # 0

\* C6: zero-reputation exclusion.  An account whose reputation is 0 is in
\* no entry of the returned share list, and no leaf handed to the tree is
\* the hash of that account with any amount.
C6_ZeroReputationExcluded ==
    shares_ret.op = "calculate_dividend_shares"
        => \A a \in Accounts :
              reputationScores[a] = 0
                  => /\ \A i \in 1 .. Len(shares_ret.shares) :
                           shares_ret.shares[i].account # a
                     /\ \A m \in 0 .. MaxPayout :
                           solidityKeccak(a, m) \notin Elems(shares_ret.hashed_leaves)

\* shares have been computed for a candidate list that names an account of
\* reputation 0 next to one of positive reputation
C6_Witness ==
    /\ shares_ret.op = "calculate_dividend_shares"
    /\ shares_ret.total > 0
    /\ \E i \in 1 .. Len(user_addresses) : reputationScores[user_addresses[i]] = 0

\* C7: end-to-end proof lookup.  When T > 0, get_merkle_proof called with
\* the (account, amount) pairs of all shares and one of those pairs raises
\* nothing and returns a proof that verifies hash(account, amount) against
\* the root calculate_dividend_shares returned.
C7_EndToEndProof ==
    (proof_ret.op = "get_merkle_proof" /\ shares_ret.total > 0
        /\ IsShare(proof_ret.account, proof_ret.amount))
        => /\ proof_ret.exc = ""
           /\ verify_merkle_proof(from_hex(shares_ret.root),
                                  solidityKeccak(proof_ret.account, proof_ret.amount),
                                  proof_bytes)
           /\ (verify_ret.op = "verify" /\ verify_ret.amount = proof_ret.amount
                  => verify_ret.ok)

\* the proof of a share in a three-leaf tree has been generated and the
\* claim of the true amount verified
C7_Witness ==
    /\ proof_ret.op = "get_merkle_proof"
    /\ IsShare(proof_ret.account, proof_ret.amount)
    /\ Len(shares_ret.shares) = 3
    /\ Len(proof_ret.proof) = 2
    /\ verify_ret.op = "verify"
    /\ verify_ret.amount = proof_ret.amount
    /\ verify_ret.ok

\* C14: zero total reputation.  When no candidate has reputation > 0 (an
\* empty candidate list included), calculate_dividend_shares raises nothing
\* and returns the empty share list, the root of the empty tree as a hex
\* string and total reputation 0, whatever the payout; no leaf is hashed.
C14_ZeroTotalReputation ==
    (shares_ret.op = "calculate_dividend_shares" /\ MerkleTree # None
        /\ \A i \in 1 .. Len(user_addresses) : reputationScores[user_addresses[i]] = 0)
        => /\ shares_ret.exc = ""
           /\ shares_ret.shares = <<>>
           /\ shares_ret.hashed_leaves = <<>>
           /\ shares_ret.root = [prefix |-> "0x", digits |-> ZeroRoot]
           /\ shares_ret.total = 0
           /\ proof_ret.op = "none" => keccak_count = 0

\* shares have been computed for a positive payout and a non-empty list of
\* candidates that all have reputation 0
C14_Witness ==
    /\ shares_ret.op = "calculate_dividend_shares"
    /\ MerkleTree # None
    /\ Len(user_addresses) >= 2
    /\ \A i \in 1 .. Len(user_addresses) : reputationScores[user_addresses[i]] = 0
    /\ total_dividend_amount > 0

\* C15: get_merkle_proof called with an (account, amount) pair whose leaf
\* hash is not among the hashes of leaves_data (an account without a share,
\* or an account with a share of a different amount) raises the tree's
\* not-found ValueError and returns no proof.
C15_ProofLeafNotFound ==
    (proof_ret.op = "get_merkle_proof" /\ MerkleTree # None
        /\ solidityKeccak(proof_ret.account, proof_ret.amount)
               \notin Elems(hashed_leaves_of(all_leaves_for_proof(shares_ret.shares))))
        => /\ proof_ret.exc = "ValueError"
           /\ proof_ret.proof = <<>>

\* a proof was asked for an account that has a share, with another amount
C15_Witness ==
    /\ proof_ret.op = "get_merkle_proof"
    /\ proof_ret.exc = "ValueError"
    /\ \E i \in 1 .. Len(shares_ret.shares) :
          /\ shares_ret.shares[i].account = proof_ret.account
          /\ shares_ret.shares[i].amount # proof_ret.amount
    /\ ~IsShare(proof_ret.account, proof_ret.amount)

\* C16: with MerkleTree bound to None, calculate_dividend_shares and
\* get_merkle_proof each raise EnvironmentError, return nothing, and no
\* reputation lookup and no leaf hash has been made.
C16_MissingLibrary ==
    MerkleTree = None
        => /\ reputation_calls = <<>>
           /\ keccak_count = 0
           /\ shares_ret.op = "calculate_dividend_shares"
                 => /\ shares_ret.exc = "EnvironmentError"
                    /\ shares_ret.shares = <<>>
                    /\ shares_ret.total = NoShares.total
           /\ proof_ret.op = "get_merkle_proof"
                 => /\ proof_ret.exc = "EnvironmentError"
                    /\ proof_ret.proof = <<>>

\* both functions have been called without the library, for a candidate
\* that has reputation
C16_Witness ==
    /\ MerkleTree = None
    /\ shares_ret.op = "calculate_dividend_shares"
    /\ proof_ret.op = "get_merkle_proof"
    /\ \E i \in 1 .. Len(user_addresses) : reputationScores[user_addresses[i]] > 0

\* C20: one calculate_dividend_shares call reads the reputation oracle
\* exactly once per entry of the candidate list, in list order, and
\* get_merkle_proof never reads it.
C20_OracleReads ==
    [][ /\ (shares_ret.op = "none" /\ shares_ret'.op = "calculate_dividend_shares"
              /\ shares_ret'.exc = "")
              => /\ reputation_calls' = reputation_calls \o user_addresses
                 /\ Len(reputation_calls') = Len(reputation_calls) + Len(user_addresses)
        /\ (proof_ret'.op = "get_merkle_proof" /\ proof_ret.op = "none")
              => reputation_calls' = reputation_calls ]_vars

\* after shares were computed for a list naming one account twice, a proof
\* has been generated; the oracle was read once per entry
C20_Witness ==
    /\ shares_ret.op = "calculate_dividend_shares"
    /\ shares_ret.exc = ""
    /\ proof_ret.op = "get_merkle_proof"
    /\ Cardinality(Elems(user_addresses)) < Len(user_addresses)
    /\ Len(reputation_calls) = Len(user_addresses)

\* the candidates that have reputation, in list order, repeats kept
EligibleCandidates == SelectSeq(user_addresses, LAMBDA u : reputationScores[u] > 0)

\* C29: the share list is the candidate list filtered by reputation > 0, in
\* the same order and with the same repeats (a candidate listed twice has
\* two entries and counts twice in the total); a candidate with reputation
\* has an entry even when its floor share is 0.
C29_SharesAreFilteredCandidates ==
    (shares_ret.op = "calculate_dividend_shares" /\ shares_ret.exc = "")
        => LET sh == shares_ret.shares
           IN  /\ Len(sh) = Len(EligibleCandidates)
               /\ \A i \in 1 .. Len(sh) :
                     /\ sh[i].account = EligibleCandidates[i]
                     /\ sh[i].reputation = reputationScores[EligibleCandidates[i]]
               /\ shares_ret.total
                     = SumOf([i \in 1 .. Len(EligibleCandidates) |->
                                 reputationScores[EligibleCandidates[i]]],
                             Len(EligibleCandidates))
               /\ Len(shares_ret.hashed_leaves) = Len(sh)
               /\ \A i \in 1 .. Len(user_addresses) :
                     reputationScores[user_addresses[i]] > 0
                         => \E k \in 1 .. Len(sh) : sh[k].account = user_addresses[i]

\* shares have been computed where a candidate listed twice has two
\* entries and, with a positive payout, an entry has amount 0
C29_Witness ==
    /\ shares_ret.op = "calculate_dividend_shares"
    /\ total_dividend_amount > 0
    /\ \E i, k \in 1 .. Len(shares_ret.shares) :
          /\ i < k
          /\ shares_ret.shares[i].account = shares_ret.shares[k].account
    /\ \E i \in 1 .. Len(shares_ret.shares) : shares_ret.shares[i].amount = 0

\* C30: bounded truncation loss.  When the returned total reputation is
\* positive, total_payout - sum(amounts) is at least 0 and strictly less
\* than the number of entries of the share list.
C30_TruncationLoss ==
    (shares_ret.op = "calculate_dividend_shares" /\ shares_ret.total > 0)
        => LET sh == shares_ret.shares
               remainder == total_dividend_amount
                                - SumOf([i \in 1 .. Len(sh) |-> sh[i].amount], Len(sh))
           IN  /\ remainder >= 0
               /\ remainder < Len(sh)

\* shares have been computed for three entries that leave two units of the
\* payout undistributed
C30_Witness ==
    /\ shares_ret.op = "calculate_dividend_shares"
    /\ shares_ret.total > 0
    /\ Len(shares_ret.shares) = 3
    /\ total_dividend_amount
          - SumOf([i \in 1 .. 3 |-> shares_ret.shares[i].amount], 3) = 2

----------------------------------------------------------------------------
(* Properties of construction step by step (checked under SpecBuild) *)

\* C21: construction precedes proof generation.  Every get_proof read the
\* levels of a tree whose __init__ had returned: the levels it read are the
\* complete levels of the cycle's leaf list and their last level has at
\* most one node.
C21_ConstructionBeforeProof ==
    \A c \in Cycles :
        cycle_proofs[c].op = "get_proof"
            => /\ instances[c].pc = "returned"
               /\ Len(Last(cycle_proofs[c].levels_read)) <= 1
               /\ cycle_proofs[c].levels_read
                     = build_levels(<< sorted(cycle_leaves[c]) >>)
               /\ cycle_proofs[c].levels_read = instances[c].levels

\* a proof was generated from a three-level tree while the tree of the
\* other cycle was still inside its loop
C21_Witness ==
    \E c, d \in Cycles :
        /\ c # d
        /\ cycle_proofs[c].op = "get_proof"
        /\ cycle_proofs[c].exc = ""
        /\ Len(cycle_proofs[c].levels_read) = 3
        /\ instances[d].pc = "while"
        /\ Len(instances[d].levels) = 2

\* C22: independence of cycles.  However the steps of two constructions and
\* their proof generations interleave, each instance holds, while it is
\* built, a prefix of the levels it has when built alone, and once built
\* exactly those levels, root and proofs; a step of one cycle leaves the
\* other cycle's instance and proof untouched.
C22_CyclesIndependent ==
    [][ \A c \in Cycles :
           (instances'[c] # instances[c] \/ cycle_proofs'[c] # cycle_proofs[c])
               => LET alone == OZMerkleTree(cycle_leaves'[c])
                      mine == instances'[c]
                  IN  /\ mine.leaves = alone.leaves
                      /\ Len(mine.levels) <= Len(alone.levels)
                      /\ mine.levels = SubSeq(alone.levels, 1, Len(mine.levels))
                      /\ mine.pc = "returned"
                            => /\ mine.levels = alone.levels
                               /\ root(mine) = root(alone)
                      /\ cycle_proofs'[c].op = "get_proof"
                            => LET r == get_proof(alone, cycle_proofs'[c].leaf)
                               IN  /\ cycle_proofs'[c].exc = r.exc
                                   /\ cycle_proofs'[c].proof = r.proof
                      /\ \A d \in Cycles \ {c} :
                            /\ instances'[d] = instances[d]
                            /\ cycle_proofs'[d] = cycle_proofs[d]
                            /\ cycle_leaves'[d] = cycle_leaves[d] ]_vars

\* both cycles have built trees of three levels from different lists and
\* generated a proof each
C22_Witness ==
    /\ cycle_leaves[1] # cycle_leaves[2]
    /\ sorted(cycle_leaves[1]) # sorted(cycle_leaves[2])
    /\ \A c \in Cycles :
          /\ instances[c].pc = "returned"
          /\ Len(instances[c].levels) = 3
          /\ cycle_proofs[c].op = "get_proof"
          /\ cycle_proofs[c].exc = ""

\* C23: construction terminates.  For every leaf list (empty, single, odd,
\* even, with repeats) the loop of __init__, once entered, reaches its end
\* and __init__ returns: every pass appends a level strictly shorter than
\* the last one.
C23_ConstructionTerminates ==
    \A c \in Cycles : (instances[c].pc = "while") ~> (instances[c].pc = "returned")

\* the loop of one cycle has run twice and ended, on a list of three leaves
\* with a repeated value
C23_Witness ==
    \E c \in Cycles :
        /\ instances[c].pc = "returned"
        /\ Len(cycle_leaves[c]) = 3
        /\ Cardinality(Elems(cycle_leaves[c])) < 3
        /\ Len(instances[c].levels) = 3
        /\ Len(instances[c].levels[2]) < Len(instances[c].levels[1])

----------------------------------------------------------------------------
(* Properties of the protocol fee calculation (checked under SpecFee) *)

\* the contract functions called so far, in order
CalledFunctions == [i \in 1 .. Len(contract_calls) |-> contract_calls[i].fn]

\* C26: calculate_new_protocol_fee returns None and raises nothing when, in
\* this order, total reputation is 0, the number of cycles is 0,
\* getCycleDetails(num_cycles - 1) raises, or that cycle's total amount is
\* 0; with total reputation 0 the treasury is not queried, and no cycle
\* other than num_cycles - 1 is ever read.
C26_FeeNotComputable ==
    /\ fee_ret.op = "calculate_new_protocol_fee"
          => /\ fee_ret.exc = ""
             /\ totalReputation = 0
                   => /\ fee_ret.none
                      /\ CalledFunctions = <<"protocolFee", "totalReputation">>
             /\ (totalReputation # 0 /\ numberOfCycles = 0)
                   => /\ fee_ret.none
                      /\ CalledFunctions
                            = <<"protocolFee", "totalReputation", "getNumberOfCycles">>
             /\ (totalReputation # 0 /\ numberOfCycles # 0
                   /\ cycleDetails[numberOfCycles - 1].raises)
                   => /\ fee_ret.none
                      /\ CalledFunctions
                            = <<"protocolFee", "totalReputation",
                                "getNumberOfCycles", "getCycleDetails">>
             /\ (totalReputation # 0 /\ numberOfCycles # 0
                   /\ ~cycleDetails[numberOfCycles - 1].raises
                   /\ cycleDetails[numberOfCycles - 1].totalAmount = 0)
                   => fee_ret.none
    /\ \A i \in 1 .. Len(contract_calls) :
          contract_calls[i].fn = "getCycleDetails"
              => contract_calls[i].arg = numberOfCycles - 1

\* the fee was asked for with total reputation 0 while the treasury has a
\* cycle with a positive amount
C26_Witness ==
    /\ fee_ret.op = "calculate_new_protocol_fee"
    /\ fee_ret.none
    /\ totalReputation = 0
    /\ numberOfCycles > 0
    /\ ~cycleDetails[numberOfCycles - 1].raises
    /\ cycleDetails[numberOfCycles - 1].totalAmount > 0

====
